---- MODULE Spec2Model ----
(***************************************************************************)
(* Library catalog service (Flask + SQLite): users, books, checkouts.      *)
(*                                                                         *)
(* The store is the three tables of app/database.py.  Every handler opens  *)
(* its own connection.  Timestamps are counted in hours: the store's       *)
(* CURRENT_TIMESTAMP is UTC ("now"), the application's datetime.now() is   *)
(* the host's local time ("now + tz").                                     *)
(***************************************************************************)
EXTENDS Integers, Sequences, FiniteSets, TLC

\* ------------------------------------------------------------------ bounds
NumBooks == 2
MaxUsers == 2
MaxCheckouts == 2
MaxTime == 3
NumConns == 2
\* the read side: the length of the ledgers enumerated in full
MaxReadRows == 2

\* ------------------------------------------------------- program constants
LoanDays == 7
HoursPerDay == 24
LoanPeriod == LoanDays * HoursPerDay

\* homepage.py: timedelta(days=7) and LIMIT 5 of get_trending_books
TrendingDays == 7
TrendingLimit == 5
TrendingWindow == TrendingDays * HoursPerDay

\* import_data.py: random.randint(0, 30) days back
ImportDays == 30

\* SQL NULL.  Row ids start at 1 and every timestamp of the model is > 0.
NULL == 0

BookIds == 1..NumBooks
\* ids a request may name: every book of the catalog and one that is absent
BookArgs == 1..(NumBooks + 1)
UserArgs == 1..MaxUsers
Usernames == {"ann", "bob"}
Passwords == {"pw"}
\* offsets of the host's local time from UTC, in hours
TzOffsets == {-1, 0, 1}
\* what a PATCH may name: a book of the catalog and an id that is absent
PatchArgs == {1, NumBooks + 1}
\* due dates a PATCH body may carry: null and a timestamp of its own
PatchDates == {NULL, 1}
\* the request slots (each request runs on a connection of its own)
Conns == 1..NumConns

VARIABLES
    users,       \* table users: user_id -> [username, password]
    nextUserId,  \* AUTOINCREMENT counter of users
    books,       \* table books: book_id -> availability columns
    catalog,     \* table books: book_id -> [author, year_published]
    plan,        \* the order in which the store emits rows a query leaves unordered
    checkouts,   \* table checkouts: checkout_id (position) -> row
    now,         \* the store's clock (UTC)
    tz,          \* local-time offset of the host running the application
    resp,        \* the response to the last request served on its own
    conn,        \* the requests in flight: one connection per request slot
    lock,        \* the connection holding the store's write lock, or NULL
    pending      \* the uncommitted tables of the connection holding the lock

vars == <<users, nextUserId, books, catalog, plan, checkouts, now, tz, resp, conn, lock, pending>>

\* what a writing request served on its own, from open to close, leaves alone:
\* the other connections and the catalog columns no handler writes
cvars == <<conn, lock, pending, catalog, plan>>

\* datetime.now(): naive local time
AppNow == now + tz

\* books' availability columns as the import leaves them (is_booked DEFAULT 0)
AvailableBook == [is_booked |-> 0, booked_by_user_id |-> NULL, due_date |-> NULL]

\* A response: the handler that answered, its HTTP status and the fields of its
\* JSON body that the model follows (NULL where the body has no such field).
Resp(op, status, id, book, user, due, ret) ==
    [op |-> op, status |-> status, checkout_id |-> id, book_id |-> book,
     user_id |-> user, due_date |-> due, return_date |-> ret]

\* {'error': ...}: an error body carries no identifier
Error(op, status) == Resp(op, status, NULL, NULL, NULL, NULL, NULL)

NoResp == Resp("none", 0, NULL, NULL, NULL, NULL, NULL)

\* A request slot: where its handler stands, its arguments, what it has read
\* and computed, whether its connection is open, and its response.
IdleConn ==
    [pc |-> "idle", book_id |-> NULL, user_id |-> NULL, checkout_id |-> NULL,
     due_date |-> NULL, return_date |-> NULL, open |-> FALSE, resp |-> NoResp]

\* no connection holds the write lock: nothing is pending
NoPending == [books |-> <<>>, checkouts |-> <<>>]

\* ------------------------------------------------------------ SQL statements
\* a handler that takes every user id as registered
SelectUser_Any(us, u) == TRUE

\* SELECT user_id FROM users WHERE user_id = ?  ... if not cursor.fetchone()
SelectUser(us, u) == u \in DOMAIN us

\* SELECT * FROM books WHERE book_id = ?  ... if not book
SelectBook(bs, b) == b \in DOMAIN bs

\* if book['is_booked'] == 1
IsBooked(bs, b) == bs[b].is_booked = 1

\* SELECT * FROM checkouts WHERE checkout_id = ?  ... if not checkout
SelectCheckout(cs, id) == id \in DOMAIN cs

\* a handler that never sees a Checkout as returned
IsReturned_Never(cs, id) == FALSE

\* if checkout['is_returned'] == 1
IsReturned(cs, id) == cs[id].is_returned = 1

\* an UPDATE that marks the book booked without recording who holds it
CheckoutUpdateBook_NoHolder(bs, b, u, due) ==
    [bs EXCEPT ![b] = [is_booked |-> 1, booked_by_user_id |-> NULL, due_date |-> due]]

\* UPDATE books SET is_booked = 1, booked_by_user_id = ?, due_date = ? WHERE book_id = ?
CheckoutUpdateBook(bs, b, u, due) ==
    [bs EXCEPT ![b] = [is_booked |-> 1, booked_by_user_id |-> u, due_date |-> due]]

\* an INSERT that stores the checkout time as the due date
CheckoutInsert_DueNow(cs, b, u, due, t) ==
    Append(cs, [book_id |-> b, user_id |-> u, checkout_date |-> t,
                return_date |-> NULL, due_date |-> t, is_returned |-> 0])

\* INSERT INTO checkouts (book_id, user_id, due_date) VALUES (?, ?, ?)
\* checkout_date, return_date and is_returned take the schema's defaults.
CheckoutInsert(cs, b, u, due, t) ==
    Append(cs, [book_id |-> b, user_id |-> u, checkout_date |-> t,
                return_date |-> NULL, due_date |-> due, is_returned |-> 0])

\* an UPDATE that sets the flag and leaves the return timestamp null
ReturnUpdateCheckout_NoDate(cs, id, rd) ==
    [cs EXCEPT ![id] = [@ EXCEPT !.is_returned = 1]]

\* UPDATE checkouts SET is_returned = 1, return_date = ? WHERE checkout_id = ?
ReturnUpdateCheckout(cs, id, rd) ==
    [cs EXCEPT ![id] = [@ EXCEPT !.is_returned = 1, !.return_date = rd]]

\* an UPDATE that clears is_booked and keeps holder and due date
ReturnUpdateBook_KeepHolder(bs, b) ==
    IF b \in DOMAIN bs THEN [bs EXCEPT ![b] = [@ EXCEPT !.is_booked = 0]] ELSE bs

\* UPDATE books SET is_booked = 0, booked_by_user_id = NULL, due_date = NULL WHERE book_id = ?
ReturnUpdateBook(bs, b) ==
    IF b \in DOMAIN bs THEN [bs EXCEPT ![b] = AvailableBook] ELSE bs

\* ------------------------------------------------------------------ initial
\* The catalog columns the checkout engine never reads: one author, one year.
PlainCatalog == [b \in BookIds |-> [author |-> "orwell", year_published |-> 1949]]

Init ==
    /\ users = [i \in {} |-> [username |-> "", password |-> ""]]
    /\ nextUserId = 1
    /\ books = [b \in BookIds |-> AvailableBook]
    /\ catalog = PlainCatalog
    /\ plan = "asc"
    /\ checkouts = <<>>
    /\ now = 2
    /\ tz \in TzOffsets
    /\ resp = NoResp
    /\ conn = [p \in Conns |-> IdleConn]
    /\ lock = NULL
    /\ pending = NoPending

\* --------------------------------------------------------------- checkouts
\* POST /api/checkouts
checkout_book(keys, b, u) ==
    /\ UNCHANGED <<users, nextUserId, now, tz, cvars>>
    /\ IF keys # {"book_id", "user_id"}
       THEN /\ resp' = Error("checkout", 400)
            /\ UNCHANGED <<books, checkouts>>
       ELSE IF ~SelectUser(users, u)
       THEN /\ resp' = Error("checkout", 404)
            /\ UNCHANGED <<books, checkouts>>
       ELSE IF ~SelectBook(books, b)
       THEN /\ resp' = Error("checkout", 404)
            /\ UNCHANGED <<books, checkouts>>
       ELSE IF IsBooked(books, b)
       THEN /\ resp' = Resp("checkout", 409, NULL, NULL, NULL, books[b].due_date, NULL)
            /\ UNCHANGED <<books, checkouts>>
       ELSE LET due == AppNow + LoanPeriod IN
            /\ Len(checkouts) < MaxCheckouts
            /\ books' = CheckoutUpdateBook(books, b, u, due)
            /\ checkouts' = CheckoutInsert(checkouts, b, u, due, now)
            /\ resp' = Resp("checkout", 201, Len(checkouts) + 1, b, u, due, NULL)

\* DELETE /api/checkouts/<checkout_id>
return_book(id) ==
    /\ UNCHANGED <<users, nextUserId, now, tz, cvars>>
    /\ IF ~SelectCheckout(checkouts, id)
       THEN /\ resp' = Error("return", 404)
            /\ UNCHANGED <<books, checkouts>>
       ELSE IF IsReturned(checkouts, id)
       THEN /\ resp' = Error("return", 400)
            /\ UNCHANGED <<books, checkouts>>
       ELSE LET book_id == checkouts[id].book_id
                return_date == AppNow
            IN  /\ checkouts' = ReturnUpdateCheckout(checkouts, id, return_date)
                /\ books' = ReturnUpdateBook(books, book_id)
                /\ resp' = Resp("return", 200, id, book_id, NULL, NULL, return_date)

\* ------------------------------------------------------------------- books
allowed_fields == {"is_booked", "booked_by_user_id", "due_date"}

\* UPDATE books SET <the allowed fields present in data> WHERE book_id = ?
PatchUpdateBook(bs, b, keys, ib, bu, dd) ==
    [bs EXCEPT ![b] =
        [is_booked         |-> IF "is_booked" \in keys THEN ib ELSE @.is_booked,
         booked_by_user_id |-> IF "booked_by_user_id" \in keys THEN bu
                               ELSE @.booked_by_user_id,
         due_date          |-> IF "due_date" \in keys THEN dd ELSE @.due_date]]

\* PATCH /api/books/<book_id>
update_book(b, keys, ib, bu, dd) ==
    /\ UNCHANGED <<users, nextUserId, checkouts, now, tz, cvars>>
    /\ IF keys = {}
       THEN /\ resp' = Error("patch", 400)
            /\ UNCHANGED books
       ELSE IF ~SelectBook(books, b)
       THEN /\ resp' = Error("patch", 404)
            /\ UNCHANGED books
       ELSE IF keys \cap allowed_fields = {}
       THEN /\ resp' = Error("patch", 400)
            /\ UNCHANGED books
       ELSE /\ books' = PatchUpdateBook(books, b, keys, ib, bu, dd)
            /\ resp' = Resp("patch", 200, NULL, b, NULL, NULL, NULL)

\* ------------------------------------------------------------------- users
UsernameTaken(name, except) ==
    \E i \in DOMAIN users \ except : users[i].username = name

\* POST /api/users
register_user(keys, name, pw) ==
    /\ UNCHANGED <<books, checkouts, now, tz, cvars>>
    /\ IF keys # {"username", "password"}
       THEN /\ resp' = Error("register", 400)
            /\ UNCHANGED <<users, nextUserId>>
       ELSE IF UsernameTaken(name, {})
       THEN /\ resp' = Error("register", 409)
            /\ UNCHANGED <<users, nextUserId>>
       ELSE /\ nextUserId <= MaxUsers
            /\ users' = [i \in DOMAIN users \cup {nextUserId} |->
                            IF i = nextUserId
                            THEN [username |-> name, password |-> pw]
                            ELSE users[i]]
            /\ nextUserId' = nextUserId + 1
            /\ resp' = Resp("register", 201, NULL, NULL, nextUserId, NULL, NULL)

\* PUT /api/users/<user_id>
update_user(u, keys, name, pw) ==
    /\ UNCHANGED <<nextUserId, books, checkouts, now, tz, cvars>>
    /\ IF keys # {"username", "password"}
       THEN /\ resp' = Error("update_user", 400)
            /\ UNCHANGED users
       ELSE IF ~SelectUser(users, u)
       THEN /\ resp' = Error("update_user", 404)
            /\ UNCHANGED users
       ELSE IF UsernameTaken(name, {u})
       THEN /\ resp' = Error("update_user", 409)
            /\ UNCHANGED users
       ELSE /\ users' = [users EXCEPT ![u] = [username |-> name, password |-> pw]]
            /\ resp' = Resp("update_user", 200, NULL, NULL, u, NULL, NULL)

\* DELETE /api/users/<user_id>   (the connection never turns foreign keys on)
delete_user(u) ==
    /\ UNCHANGED <<nextUserId, books, checkouts, now, tz, cvars>>
    /\ IF ~SelectUser(users, u)
       THEN /\ resp' = Error("delete_user", 404)
            /\ UNCHANGED users
       ELSE /\ users' = [i \in DOMAIN users \ {u} |-> users[i]]
            /\ resp' = Resp("delete_user", 200, NULL, NULL, NULL, NULL, NULL)

\* -------------------------------------------------------------------- time
Tick ==
    /\ now < MaxTime
    /\ now' = now + 1
    /\ UNCHANGED <<users, nextUserId, books, checkouts, tz, resp, cvars>>

CheckoutKeys == {"book_id", "user_id"}
UserKeys == {"username", "password"}

\* a body that lacks a key is refused before its values are read
CheckoutRequest ==
    \/ \E keys \in (SUBSET CheckoutKeys) \ {CheckoutKeys} : checkout_book(keys, NULL, NULL)
    \/ \E b \in BookArgs, u \in UserArgs : checkout_book(CheckoutKeys, b, u)

ReturnRequest == \E id \in 1..(Len(checkouts) + 1) : return_book(id)

\* A PATCH body: the keys it carries and a value for each allowed key it carries.
PatchRequest ==
    \E b \in PatchArgs, keys \in (SUBSET allowed_fields) \cup {{"title"}} :
      \E ib \in (IF "is_booked" \in keys THEN {0, 1} ELSE {NULL}),
         bu \in (IF "booked_by_user_id" \in keys THEN {NULL} \cup UserArgs ELSE {NULL}),
         dd \in (IF "due_date" \in keys THEN PatchDates ELSE {NULL}) :
        update_book(b, keys, ib, bu, dd)

UserRequest ==
    \/ \E keys \in (SUBSET UserKeys) \ {UserKeys} : register_user(keys, "", "")
    \/ \E name \in Usernames, pw \in Passwords : register_user(UserKeys, name, pw)
    \/ \E u \in UserArgs, keys \in (SUBSET UserKeys) \ {UserKeys} :
           update_user(u, keys, "", "")
    \/ \E u \in UserArgs, name \in Usernames, pw \in Passwords :
           update_user(u, UserKeys, name, pw)
    \/ \E u \in UserArgs : delete_user(u)

\* The checkout engine and the user endpoints, one request at a time, on a host
\* in any of the time zones.
Next ==
    \/ CheckoutRequest
    \/ ReturnRequest
    \/ UserRequest
    \/ Tick

Spec == Init /\ [][Next]_vars

\* Every endpoint that writes, the book PATCH included, one request at a time,
\* on a host whose local time is UTC.
InitAll == Init /\ tz = 0

NextAll ==
    \/ CheckoutRequest
    \/ ReturnRequest
    \/ PatchRequest
    \/ UserRequest

SpecAll == InitAll /\ [][NextAll]_vars
\* ------------------------------------------------- overlapping requests
\* Each request runs its handler's statements one at a time on a connection of
\* its own.  A SELECT runs outside any transaction and reads the committed
\* tables.  The first UPDATE opens the connection's transaction and takes the
\* store's write lock; the transaction's writes stay in "pending" until
\* conn.commit() installs them.

\* what a request in flight leaves alone
rest == <<users, nextUserId, catalog, plan, now, tz, resp>>

\* the store's tables as connection p sees them
SeenBooks(p) == IF lock = p THEN pending.books ELSE books
SeenCheckouts(p) == IF lock = p THEN pending.checkouts ELSE checkouts

\* conn.close() after the response is chosen
Answer(p, r) == conn' = [conn EXCEPT ![p] = [@ EXCEPT !.pc = "idle", !.open = FALSE, !.resp = r]]

Goto(p, pc) == conn' = [conn EXCEPT ![p] = [@ EXCEPT !.pc = pc]]

InFlightCheckouts == {p \in Conns : conn[p].pc \in {"co_user", "co_book", "co_update", "co_insert", "co_commit"}}

\* a connection in autocommit mode: every statement reaches the store at once
Write_Autocommit(p, bs, cs) ==
    /\ books' = bs
    /\ checkouts' = cs
    /\ UNCHANGED <<lock, pending>>

\* a statement of a write transaction puts its result in pending
Write(p, bs, cs) ==
    /\ lock \in {NULL, p}
    /\ lock' = p
    /\ pending' = [books |-> bs, checkouts |-> cs]
    /\ UNCHANGED <<books, checkouts>>

\* conn.commit()
Commit(p) ==
    /\ lock = p
    /\ books' = pending.books
    /\ checkouts' = pending.checkouts
    /\ lock' = NULL
    /\ pending' = NoPending

\* conn = get_db_connection() of checkout_book
co_open(p, b, u) ==
    /\ conn[p].pc = "idle"
    /\ Len(checkouts) + Cardinality(InFlightCheckouts) < MaxCheckouts
    /\ conn' = [conn EXCEPT ![p] =
                   [IdleConn EXCEPT !.pc = "co_user", !.book_id = b, !.user_id = u,
                                    !.open = TRUE]]
    /\ UNCHANGED <<books, checkouts, lock, pending, rest>>

co_user(p) ==
    /\ conn[p].pc = "co_user"
    /\ IF ~SelectUser(users, conn[p].user_id)
       THEN Answer(p, Error("checkout", 404))
       ELSE Goto(p, "co_book")
    /\ UNCHANGED <<books, checkouts, lock, pending, rest>>

co_book(p) ==
    LET b == conn[p].book_id IN
    /\ conn[p].pc = "co_book"
    /\ IF ~SelectBook(SeenBooks(p), b)
       THEN Answer(p, Error("checkout", 404))
       ELSE IF IsBooked(SeenBooks(p), b)
       THEN Answer(p, Resp("checkout", 409, NULL, NULL, NULL, SeenBooks(p)[b].due_date, NULL))
       ELSE conn' = [conn EXCEPT ![p] =
                        [@ EXCEPT !.pc = "co_update", !.due_date = AppNow + LoanPeriod]]
    /\ UNCHANGED <<books, checkouts, lock, pending, rest>>

co_update(p) ==
    /\ conn[p].pc = "co_update"
    /\ Write(p, CheckoutUpdateBook(SeenBooks(p), conn[p].book_id, conn[p].user_id,
                                   conn[p].due_date),
                SeenCheckouts(p))
    /\ Goto(p, "co_insert")
    /\ UNCHANGED rest

co_insert(p) ==
    /\ conn[p].pc = "co_insert"
    /\ Write(p, SeenBooks(p),
                CheckoutInsert(SeenCheckouts(p), conn[p].book_id, conn[p].user_id,
                               conn[p].due_date, now))
    /\ conn' = [conn EXCEPT ![p] =
                   [@ EXCEPT !.pc = "co_commit", !.checkout_id = Len(SeenCheckouts(p)) + 1]]
    /\ UNCHANGED rest

co_commit(p) ==
    /\ conn[p].pc = "co_commit"
    /\ Commit(p)
    /\ Answer(p, Resp("checkout", 201, conn[p].checkout_id, conn[p].book_id,
                      conn[p].user_id, conn[p].due_date, NULL))
    /\ UNCHANGED rest

\* conn = get_db_connection() of return_book
rt_open(p, id) ==
    /\ conn[p].pc = "idle"
    /\ conn' = [conn EXCEPT ![p] =
                   [IdleConn EXCEPT !.pc = "rt_select", !.checkout_id = id, !.open = TRUE]]
    /\ UNCHANGED <<books, checkouts, lock, pending, rest>>

rt_select(p) ==
    LET id == conn[p].checkout_id IN
    /\ conn[p].pc = "rt_select"
    /\ IF ~SelectCheckout(SeenCheckouts(p), id)
       THEN Answer(p, Error("return", 404))
       ELSE IF IsReturned(SeenCheckouts(p), id)
       THEN Answer(p, Error("return", 400))
       ELSE conn' = [conn EXCEPT ![p] =
                        [@ EXCEPT !.pc = "rt_checkout",
                                  !.book_id = SeenCheckouts(p)[id].book_id,
                                  !.return_date = AppNow]]
    /\ UNCHANGED <<books, checkouts, lock, pending, rest>>

rt_checkout(p) ==
    /\ conn[p].pc = "rt_checkout"
    /\ Write(p, SeenBooks(p),
                ReturnUpdateCheckout(SeenCheckouts(p), conn[p].checkout_id,
                                     conn[p].return_date))
    /\ Goto(p, "rt_book")
    /\ UNCHANGED rest

rt_book(p) ==
    /\ conn[p].pc = "rt_book"
    /\ Write(p, ReturnUpdateBook(SeenBooks(p), conn[p].book_id), SeenCheckouts(p))
    /\ Goto(p, "rt_commit")
    /\ UNCHANGED rest

rt_commit(p) ==
    /\ conn[p].pc = "rt_commit"
    /\ Commit(p)
    /\ Answer(p, Resp("return", 200, conn[p].checkout_id, conn[p].book_id, NULL, NULL,
                      conn[p].return_date))
    /\ UNCHANGED rest

\* The first UPDATE finds the write lock taken for longer than the
\* connection's busy timeout: the statement raises, the handler has no except
\* clause, and the request ends in a 500 without closing its connection.
busy(p) ==
    /\ conn[p].pc \in {"co_update", "rt_checkout"}
    /\ lock \notin {NULL, p}
    /\ conn' = [conn EXCEPT ![p] = [@ EXCEPT !.pc = "idle", !.resp = Error("error", 500)]]
    /\ UNCHANGED <<books, checkouts, lock, pending, rest>>

\* A statement after the first UPDATE raises, or the request dies there: the
\* connection is dropped with its transaction open, and the store rolls the
\* transaction back.
fail(p) ==
    /\ conn[p].pc \in {"co_insert", "co_commit", "rt_book", "rt_commit"}
    /\ lock = p
    /\ lock' = NULL
    /\ pending' = NoPending
    /\ conn' = [conn EXCEPT ![p] = [@ EXCEPT !.pc = "idle", !.resp = Error("error", 500)]]
    /\ UNCHANGED <<books, checkouts, rest>>

\* two registered users, the catalog as imported, an empty ledger
InitConc ==
    /\ users = [i \in 1..2 |-> [username |-> IF i = 1 THEN "ann" ELSE "bob",
                                password |-> "pw"]]
    /\ nextUserId = 3
    /\ books = [b \in BookIds |-> AvailableBook]
    /\ catalog = PlainCatalog
    /\ plan = "asc"
    /\ checkouts = <<>>
    /\ now = 2
    /\ tz = 0
    /\ resp = Resp("register", 201, NULL, NULL, 2, NULL, NULL)
    /\ conn = [p \in Conns |-> IdleConn]
    /\ lock = NULL
    /\ pending = NoPending

NextConc ==
    \/ \E p \in Conns, b \in BookArgs, u \in 1..3 : co_open(p, b, u)
    \/ \E p \in Conns : co_user(p)
    \/ \E p \in Conns : co_book(p)
    \/ \E p \in Conns : co_update(p)
    \/ \E p \in Conns : co_insert(p)
    \/ \E p \in Conns : co_commit(p)
    \/ \E p \in Conns, id \in 1..(Len(checkouts) + 1) : rt_open(p, id)
    \/ \E p \in Conns : rt_select(p)
    \/ \E p \in Conns : rt_checkout(p)
    \/ \E p \in Conns : rt_book(p)
    \/ \E p \in Conns : rt_commit(p)
    \/ \E p \in Conns : busy(p)
    \/ \E p \in Conns : fail(p)

SpecConc == InitConc /\ [][NextConc]_vars

\* ------------------------------------------------------------ read side
\* GET /api/homepage, /api/homepage/trending, /api/homepage/recommendations.
\* The handlers read the tables and write nothing.  Books are reported by id.

\* homepage.py: LIMIT 3 of the seed query, LIMIT 5 per author or year,
\* similar_users[:5], LIMIT 3 per similar user, [:10] of every list
SeedLimit == 3
PerKeyLimit == 5
SimilarUsersLimit == 5
PerSimilarUserLimit == 3
ListLimit == 10

\* seven_days_ago = datetime.now() - timedelta(days=7), formatted like the
\* store's timestamps, so that the comparison of strings is one of instants
seven_days_ago == AppNow - TrendingWindow

\* Rows that a query does not order come out in the order of the scan the
\* store's plan makes, by ascending or by descending rowid: a precedes b
ScanBefore(a, b) == IF plan = "asc" THEN a <= b ELSE a >= b

\* the rowids 1..n in the order of the scan
Scan(n) == [k \in 1..n |-> IF plan = "asc" THEN k ELSE n + 1 - k]

\* s[:n]
Take(s, n) == SubSeq(s, 1, IF n < Len(s) THEN n ELSE Len(s))

SeqRange(s) == {s[k] : k \in DOMAIN s}

\* "Remove duplicates", also SELECT DISTINCT: the first occurrence of every id
RECURSIVE unique(_, _)
unique(s, seen_ids) ==
    IF s = <<>> THEN <<>>
    ELSE IF Head(s) \in seen_ids THEN unique(Tail(s), seen_ids)
    ELSE <<Head(s)>> \o unique(Tail(s), seen_ids \cup {Head(s)})

\* COUNT(c.checkout_id) of the group of book b: the rows of c that the LEFT
\* JOIN pairs with b and the WHERE keeps (c.checkout_date >= ?)
checkout_count(cs, b, since) ==
    Cardinality({i \in DOMAIN cs : cs[i].book_id = b /\ cs[i].checkout_date >= since})

\* The groups of the query: a book without any checkout is joined to one row
\* of NULLs, which the WHERE keeps (c.checkout_date IS NULL); a book that has
\* checkouts appears only if the WHERE keeps one of them.
TrendingGroups(cat, cs, since) ==
    LET borrowed == {cs[i].book_id : i \in DOMAIN cs}
        kept     == {cs[i].book_id : i \in {j \in DOMAIN cs : cs[j].checkout_date >= since}}
    IN  (DOMAIN cat \ borrowed) \cup (DOMAIN cat \cap kept)

\* A ranking whose order among equal counts follows the request being served
\* rather than the stored rows
TrendingBefore_Unstable(count, groups) ==
    LET most == CHOOSE m \in {count[b] : b \in groups} : \A b \in groups : count[b] <= m
        ties == {b \in groups : count[b] = most}
    IN  IF resp.op = "homepage"
        THEN CHOOSE a \in ties : \A b \in ties : ScanBefore(b, a)
        ELSE CHOOSE a \in ties : \A b \in ties : ScanBefore(a, b)

\* ORDER BY checkout_count DESC, equal counts in the order of the scan:
\* the group placed first (count gives every group's checkout_count)
TrendingBefore(count, groups) ==
    LET most == CHOOSE m \in {count[b] : b \in groups} : \A b \in groups : count[b] <= m
        ties == {b \in groups : count[b] = most}
    IN  CHOOSE a \in ties : \A b \in ties : ScanBefore(a, b)

\* the first n groups in that order
RECURSIVE TrendingTop(_, _, _)
TrendingTop(count, groups, n) ==
    IF n = 0 \/ groups = {} THEN <<>>
    ELSE LET first == TrendingBefore(count, groups)
         IN  <<[book_id |-> first, checkout_count |-> count[first]]>>
             \o TrendingTop(count, groups \ {first}, n - 1)

\* get_trending_books(): the rows of the query, LIMIT 5
get_trending_books ==
    LET groups == TrendingGroups(catalog, checkouts, seven_days_ago)
        count  == [b \in groups |-> checkout_count(checkouts, b, seven_days_ago)]
    IN  TrendingTop(count, groups, TrendingLimit)

\* the orders in which iterating a Python set may deliver its members
Orders(S) == {s \in [1..Cardinality(S) -> S] : \A i, j \in DOMAIN s : i # j => s[i] # s[j]}

\* the user's checkouts that JOIN books pairs with a book
UserRows(cat, cs, u) ==
    {i \in DOMAIN cs : cs[i].user_id = u /\ cs[i].book_id \in DOMAIN cat}

\* ORDER BY c.checkout_date DESC LIMIT n, equal dates in the order of the scan
RECURSIVE RecentFirst(_, _, _)
RecentFirst(cs, rows, n) ==
    IF n = 0 \/ rows = {} THEN <<>>
    ELSE LET latest == CHOOSE t \in {cs[i].checkout_date : i \in rows} :
                           \A i \in rows : cs[i].checkout_date <= t
             ties   == {i \in rows : cs[i].checkout_date = latest}
             x      == CHOOSE a \in ties : \A b \in ties : ScanBefore(a, b)
         IN  <<x>> \o RecentFirst(cs, rows \ {x}, n - 1)

\* A seed selection that takes the user's first checkouts in the order of the
\* scan instead of the most recent ones
recent_checkouts_Unordered(cat, cs, u) ==
    Take(SelectSeq(Scan(Len(cs)), LAMBDA i : i \in UserRows(cat, cs, u)), SeedLimit)

\* recent_checkouts: the user's last 3 checkouts, as checkout ids
recent_checkouts(cat, cs, u) == RecentFirst(cs, UserRows(cat, cs, u), SeedLimit)

\* recent_book_ids, also the response's based_on_books
recent_book_ids(cs, recent) == [k \in DOMAIN recent |-> cs[recent[k]].book_id]

\* Keys that are not drawn from the seeds: every author of the catalog, and
\* the seeds' years with the missing year among them
recent_authors_All(cat, seeds) == {cat[b].author : b \in DOMAIN cat}
recent_years_WithNull(cat, seeds) == {cat[b].year_published : b \in seeds}

\* set([c['author'] ... if c['author']]) and the same for year_published
recent_authors(cat, seeds) == {cat[b].author : b \in seeds} \ {""}
recent_years(cat, seeds) == {cat[b].year_published : b \in seeds} \ {NULL}

\* for key in keys: SELECT * FROM books WHERE <column> = key AND book_id NOT IN
\* (seeds) LIMIT 5; the rows of all keys concatenated
RECURSIVE BooksByKeys(_, _, _, _)
BooksByKeys(cat, column, keys, seeds) ==
    IF keys = <<>> THEN <<>>
    ELSE Take(SelectSeq(Scan(Cardinality(DOMAIN cat)),
                        LAMBDA b : cat[b][column] = Head(keys) /\ b \notin seeds),
              PerKeyLimit)
         \o BooksByKeys(cat, column, Tail(keys), seeds)

\* The users who checked out a seed book, the requesting user not left out
similar_users_WithSelf(cs, seeds, u) ==
    LET hits == SelectSeq(Scan(Len(cs)), LAMBDA i : cs[i].book_id \in seeds)
    IN  unique([k \in DOMAIN hits |-> cs[hits[k]].user_id], {})

\* SELECT DISTINCT user_id FROM checkouts WHERE book_id IN (seeds) AND user_id != ?
similar_users(cs, seeds, u) ==
    LET hits == SelectSeq(Scan(Len(cs)),
                          LAMBDA i : cs[i].book_id \in seeds /\ cs[i].user_id # u)
    IN  unique([k \in DOMAIN hits |-> cs[hits[k]].user_id], {})

\* for similar_user_id in similar_users[:5]: SELECT DISTINCT b.* FROM checkouts c
\* JOIN books b ... WHERE c.user_id = ? AND c.book_id NOT IN (seeds) LIMIT 3
RECURSIVE similar_users_books(_, _, _, _)
similar_users_books(cat, cs, others, seeds) ==
    IF others = <<>> THEN <<>>
    ELSE LET hits == SelectSeq(Scan(Len(cs)),
                               LAMBDA i : /\ cs[i].user_id = Head(others)
                                          /\ cs[i].book_id \in DOMAIN cat
                                          /\ cs[i].book_id \notin seeds)
         IN  Take(unique([k \in DOMAIN hits |-> cs[hits[k]].book_id], {}),
                  PerSimilarUserLimit)
             \o similar_users_books(cat, cs, Tail(others), seeds)

\* get_user_recommendations(user_id): what the call may return, one value for
\* every order in which the two sets deliver their members
get_user_recommendations(u) ==
    LET recent   == recent_checkouts(catalog, checkouts, u)
        based_on == recent_book_ids(checkouts, recent)
        seeds    == SeqRange(based_on)
        similar  == Take(unique(similar_users_books(catalog, checkouts,
                                    Take(similar_users(checkouts, seeds, u), SimilarUsersLimit),
                                    seeds), {}),
                         ListLimit)
    IN  IF recent = <<>>
        THEN {[by_author |-> <<>>, by_year |-> <<>>, similar_users |-> <<>>,
               message |-> "No checkout history found"]}
        ELSE {[by_author |-> by_author, by_year |-> by_year,
               similar_users |-> similar_books, based_on_books |-> based_on] :
                  by_author \in
                      {Take(unique(BooksByKeys(catalog, "author", authors, seeds), {}), ListLimit) :
                          authors \in Orders(recent_authors(catalog, seeds))},
                  by_year \in
                      {Take(unique(BooksByKeys(catalog, "year_published", years, seeds), {}),
                            ListLimit) :
                          years \in Orders(recent_years(catalog, seeds))},
                  similar_books \in {similar}}

\* GET /api/homepage/trending
get_trending_endpoint ==
    /\ resp' = [op |-> "trending", status |-> 200, trending |-> get_trending_books]
    /\ UNCHANGED <<users, nextUserId, books, checkouts, now, tz, cvars>>

\* GET /api/homepage/recommendations/<user_id>
get_recommendations_endpoint(u) ==
    /\ \E r \in get_user_recommendations(u) :
          resp' = [op |-> "recommendations", status |-> 200, user_id |-> u,
                   recommendations |-> r]
    /\ UNCHANGED <<users, nextUserId, books, checkouts, now, tz, cvars>>

\* GET /api/homepage?user_id=<int>: recommendations only "if user_id"
get_homepage_data(u) ==
    /\ \E t \in {get_trending_books} :
       \E r \in (IF u = NULL THEN {[x \in {} |-> <<>>]} ELSE get_user_recommendations(u)) :
          resp' = [op |-> "homepage", status |-> 200, user_id |-> u,
                   trending |-> t, recommendations |-> r]
    /\ UNCHANGED <<users, nextUserId, books, checkouts, now, tz, cvars>>

\* ------------------------------------------------------- the imported store
\* scripts/import_data.py fills the tables the read side works on.

\* import_books: every row has an author (rows without one are skipped) and a
\* year or NULL.  A small catalog: two authors, three years of which one NULL.
SmallCatalog(n) ==
    [b \in 1..n |-> [author |-> IF b % 2 = 1 THEN "orwell" ELSE "huxley",
                     year_published |-> IF b % 3 = 0 THEN NULL ELSE 1944 + (b % 3)]]

\* sizes of the small catalogs: one book, as many as trending returns, one more
SmallSizes == {1, TrendingLimit, TrendingLimit + 1}

\* A catalog of three shelves, one author per shelf, each shelf and each year
\* holding more books than one key contributes to a list; the years cut across
\* the shelves and every fourth book has none.
ShelfSize == PerKeyLimit + 4
BigBooks == 3 * ShelfSize
BigCatalog ==
    [b \in 1..BigBooks |->
        [author |-> IF b <= ShelfSize THEN "orwell"
                    ELSE IF b <= 2 * ShelfSize THEN "huxley" ELSE "zamyatin",
         year_published |-> IF b % 4 = 0 THEN NULL ELSE 1944 + (b % 4)]]

\* create_sample_users: user1/pass1 .. user<n>/pass<n>
SampleUsers(n) == [i \in 1..n |-> [username |-> <<"user", i>>, password |-> <<"pass", i>>]]
\* the requesting user and one similar user more than a request draws on
BigUsers == SimilarUsersLimit + 2

\* The outcomes of the script's random picks that the model follows.  The
\* users check out in rounds, every user once per round, the last round the
\* most recent; in the last `hot` rounds all users pick the same book.
ImportDraws ==
    {[rounds |-> 1, hot |-> 0, stride |-> 1, spacing |-> 1],
     [rounds |-> 4, hot |-> 0, stride |-> 5, spacing |-> 1],
     [rounds |-> 4, hot |-> 3, stride |-> 1, spacing |-> 5],
     [rounds |-> 7, hot |-> 0, stride |-> 1, spacing |-> 5],
     [rounds |-> 7, hot |-> 3, stride |-> 1, spacing |-> 1],
     [rounds |-> 7, hot |-> 3, stride |-> 5, spacing |-> 5]}

\* random.choice(books) of the row of user u in round r
ImportBook(n, rounds, hot, stride, u, r) ==
    IF r >= rounds - hot
    THEN (((rounds - 1 - r) * ShelfSize) % n) + 1
    ELSE ((u * stride + r * 7) % n) + 1

\* the rows create_sample_checkouts inserts: dates are datetime.now() of the
\* script minus whole days, four rows of five are returned
ImportRows(us, n, rounds, hot, stride, spacing) ==
    LET m == Cardinality(DOMAIN us)
    IN  [i \in 1..(m * rounds) |->
            LET u    == ((i - 1) % m) + 1
                r    == (i - 1) \div m
                date == AppNow - ((rounds - 1 - r) * spacing) * HoursPerDay
                back == i % 5 # 0
            IN  [book_id |-> ImportBook(n, rounds, hot, stride, u, r),
                 user_id |-> u,
                 checkout_date |-> date,
                 return_date |-> IF back THEN date + ((i % 7) + 1) * HoursPerDay ELSE NULL,
                 due_date |-> date + LoanPeriod,
                 is_returned |-> IF back THEN 1 ELSE 0]]

\* create_sample_checkouts(): DELETE FROM checkouts, every book reset to
\* available, then the sample rows
create_sample_checkouts(d) ==
    /\ DOMAIN users # {} /\ DOMAIN catalog # {}
    /\ checkouts' = ImportRows(users, Cardinality(DOMAIN catalog),
                               d.rounds, d.hot, d.stride, d.spacing)
    /\ books' = [b \in DOMAIN books |-> AvailableBook]
    /\ resp' = NoResp
    /\ UNCHANGED <<users, nextUserId, now, tz, cvars>>

\* checkout timestamps of the enumerated ledgers: the last hour outside the
\* trailing window of a call made now, and the first hour inside it
ReadDates == {now - TrendingWindow - 1, now - TrendingWindow}

\* a row the service wrote and closed: checked out at t, returned the hour after
ClosedRow(b, u, t) ==
    [book_id |-> b, user_id |-> u, checkout_date |-> t, return_date |-> t + 1,
     due_date |-> t + LoanPeriod, is_returned |-> 1]

\* every ledger of at most MaxReadRows closed rows over n books
ReadLedgers(n) ==
    UNION {[1..k -> {ClosedRow(b, u, t) : b \in 1..n, u \in 1..MaxUsers, t \in ReadDates}] :
              k \in 0..MaxReadRows}

\* The store the read side starts from: a small catalog with any short ledger
\* of closed checkouts, or the big catalog freshly imported, its ledger empty.
InitRead ==
    /\ now = (ImportDays + 1) * HoursPerDay + 2
    /\ tz \in TzOffsets
    /\ plan \in {"asc", "desc"}
    /\ \/ \E n \in SmallSizes :
             /\ catalog = SmallCatalog(n)
             /\ users = SampleUsers(MaxUsers)
             /\ nextUserId = MaxUsers + 1
             /\ checkouts \in ReadLedgers(n)
       \/ /\ catalog = BigCatalog
          /\ users = SampleUsers(BigUsers)
          /\ nextUserId = BigUsers + 1
          /\ checkouts = <<>>
    /\ books = [b \in DOMAIN catalog |-> AvailableBook]
    /\ resp = NoResp
    /\ conn = [p \in Conns |-> IdleConn]
    /\ lock = NULL
    /\ pending = NoPending

\* the users requests name: the first two, and one id that is not registered
ReadUserArgs == {1, 2, Cardinality(DOMAIN users) + 1}

NextRead ==
    \/ get_trending_endpoint
    \/ \E u \in ReadUserArgs : get_recommendations_endpoint(u)
    \/ \E u \in {NULL, 1} : get_homepage_data(u)
    \/ \E d \in ImportDraws : create_sample_checkouts(d)

SpecRead == InitRead /\ [][NextRead]_vars

\* ------------------------------------------------------------------ claims
OpenRows(b) ==
    {i \in DOMAIN checkouts : checkouts[i].book_id = b /\ checkouts[i].is_returned = 0}

\* C1: two checkout requests for the same book that overlap never both
\* succeed: no two connections hold a 201 for the same book with both of
\* their Checkout rows not returned.
C1_NeverTwoSuccesses ==
    \A p, q \in Conns :
        ( /\ p # q
          /\ conn[p].resp.op = "checkout" /\ conn[p].resp.status = 201
          /\ conn[q].resp.op = "checkout" /\ conn[q].resp.status = 201
          /\ conn[p].resp.book_id = conn[q].resp.book_id
          /\ conn[p].resp.checkout_id \in DOMAIN checkouts
          /\ conn[q].resp.checkout_id \in DOMAIN checkouts )
        => \/ checkouts[conn[p].resp.checkout_id].is_returned = 1
           \/ checkouts[conn[q].resp.checkout_id].is_returned = 1

\* C2: every book is referenced by at most one Checkout row with
\* is_returned = 0, in every state the endpoints (checkout, return, book PATCH,
\* user register/update/delete) can reach.
C2_LedgerInvariant == \A b \in BookIds : Cardinality(OpenRows(b)) <= 1

\* C3: for every book, is_booked = 1 if and only if booked_by_user_id and
\* due_date are both non-null, in every state the endpoints can reach.
C3_CheckoutInvariant ==
    \A b \in BookIds :
        (books[b].is_booked = 1) <=>
            (books[b].booked_by_user_id # NULL /\ books[b].due_date # NULL)

\* C4: while a checkout of book b is not returned, a checkout of b by any
\* existing user answers 409 Conflict, carries the due date the first checkout
\* set, and changes no Book and no Checkout row.
C4_Conflict ==
    [][\A b \in BookIds, u2 \in UserArgs, i \in DOMAIN checkouts :
          ( /\ resp'.op = "checkout"
            /\ checkouts[i].book_id = b
            /\ checkouts[i].is_returned = 0
            /\ u2 \in DOMAIN users
            /\ checkout_book(CheckoutKeys, b, u2) )
          => ( /\ resp'.status = 409
               /\ resp'.due_date = checkouts[i].due_date
               /\ books' = books
               /\ checkouts' = checkouts )]_vars

\* C5: a checkout of an available book by an existing user is answered with the
\* id of a not-returned row for that book and user, and returning a not-returned
\* row leaves its book available with holder and due date null and the row
\* returned with a return timestamp.
C5_RoundTrip ==
    [][ /\ \A b \in BookIds, u \in UserArgs :
              ( /\ resp'.op = "checkout"
                /\ books[b].is_booked = 0
                /\ u \in DOMAIN users
                /\ checkout_book(CheckoutKeys, b, u) )
              => ( /\ resp'.status = 201
                   /\ resp'.checkout_id \in DOMAIN checkouts'
                   /\ checkouts'[resp'.checkout_id].book_id = b
                   /\ checkouts'[resp'.checkout_id].user_id = u
                   /\ checkouts'[resp'.checkout_id].is_returned = 0 )
        /\ \A id \in DOMAIN checkouts :
              (resp'.op = "return" /\ checkouts[id].is_returned = 0 /\ return_book(id))
              => ( /\ resp'.status = 200
                   /\ books'[checkouts[id].book_id] = AvailableBook
                   /\ checkouts'[id].is_returned = 1
                   /\ checkouts'[id].return_date # NULL ) ]_vars

\* a checkout has been returned and its book is available again
C5_Witness ==
    /\ resp.op = "return" /\ resp.status = 200
    /\ checkouts[resp.checkout_id].is_returned = 1
    /\ books[resp.book_id] = AvailableBook

\* C6: every returned Checkout row has return_date >= checkout_date, the
\* checkout date being the store's default and the return date the
\* application's clock.
C6_ReturnNotBeforeCheckout ==
    \A i \in DOMAIN checkouts :
        checkouts[i].is_returned = 1 =>
            checkouts[i].return_date >= checkouts[i].checkout_date

\* C7: returning a checkout that is already returned answers 400 (already
\* returned) and leaves every Book row and every Checkout row as it was.
C7_AlreadyReturned ==
    [][\A id \in DOMAIN checkouts :
          (resp'.op = "return" /\ checkouts[id].is_returned = 1 /\ return_book(id))
          => ( /\ resp'.status = 400
               /\ books' = books
               /\ checkouts' = checkouts )]_vars

\* a second return was refused while the book is out again with another user
C7_Witness ==
    /\ resp.op = "return" /\ resp.status = 400
    /\ \E i, j \in DOMAIN checkouts :
          /\ checkouts[i].is_returned = 1
          /\ checkouts[j].is_returned = 0
          /\ checkouts[j].book_id = checkouts[i].book_id
          /\ checkouts[j].user_id # checkouts[i].user_id
          /\ books[checkouts[j].book_id].is_booked = 1

\* C8: the two writes of a checkout and of a return reach the store together
\* or not at all: a step changes the committed tables only by marking a book
\* checked out and appending its Checkout row, or by marking a Checkout
\* returned and its book available; a request that dies between its first
\* write and its commit changes nothing.
C8_Atomicity ==
    [][ \/ UNCHANGED <<books, checkouts>>
        \/ \E p \in Conns :
              LET b == conn[p].book_id
                  n == Len(checkouts)
              IN  /\ conn[p].pc = "co_commit"
                  /\ books'[b].is_booked = 1
                  /\ books'[b].booked_by_user_id = conn[p].user_id
                  /\ \A o \in BookIds \ {b} : books'[o] = books[o]
                  /\ Len(checkouts') = n + 1
                  /\ \A i \in 1..n : checkouts'[i] = checkouts[i]
                  /\ checkouts'[n + 1].book_id = b
                  /\ checkouts'[n + 1].user_id = conn[p].user_id
                  /\ checkouts'[n + 1].is_returned = 0
        \/ \E p \in Conns :
              LET id == conn[p].checkout_id
              IN  /\ conn[p].pc = "rt_commit"
                  /\ Len(checkouts') = Len(checkouts)
                  /\ checkouts'[id].is_returned = 1
                  /\ \A i \in DOMAIN checkouts \ {id} : checkouts'[i] = checkouts[i]
                  /\ books'[checkouts[id].book_id].is_booked = 0
                  /\ \A o \in BookIds \ {checkouts[id].book_id} : books'[o] = books[o] ]_vars

\* a checkout died after both of its writes and the store shows neither
C8_Witness ==
    \E p \in Conns :
        /\ conn[p].pc = "idle" /\ conn[p].resp.status = 500
        /\ conn[p].checkout_id # NULL /\ conn[p].user_id # NULL
        /\ conn[p].checkout_id \notin DOMAIN checkouts
        /\ books[conn[p].book_id].is_booked = 0

\* C9: a checkout answered 201 sets its book to is_booked = 1 with the user and
\* a due date, appends exactly one row for that book and user with
\* is_returned = 0, no return date and the book's due date, changes no other
\* Book or Checkout row, and answers the new row's id and that due date.
C9_CheckoutEffect ==
    [][\A b \in BookArgs, u \in UserArgs :
          (resp'.op = "checkout" /\ resp'.status = 201 /\ checkout_book(CheckoutKeys, b, u))
          => LET n == Len(checkouts) IN
             /\ books'[b].is_booked = 1
             /\ books'[b].booked_by_user_id = u
             /\ books'[b].due_date # NULL
             /\ \A o \in BookIds \ {b} : books'[o] = books[o]
             /\ Len(checkouts') = n + 1
             /\ \A i \in 1..n : checkouts'[i] = checkouts[i]
             /\ checkouts'[n + 1].book_id = b
             /\ checkouts'[n + 1].user_id = u
             /\ checkouts'[n + 1].is_returned = 0
             /\ checkouts'[n + 1].return_date = NULL
             /\ checkouts'[n + 1].due_date = books'[b].due_date
             /\ resp'.checkout_id = n + 1
             /\ resp'.due_date = books'[b].due_date ]_vars

\* a checkout succeeded while another book was out and the ledger held a row
C9_Witness ==
    /\ resp.op = "checkout" /\ resp.status = 201
    /\ resp.checkout_id = 2
    /\ \E o \in BookIds \ {resp.book_id} : books[o].is_booked = 1

\* C10: a checkout naming a user or a book that does not exist answers 404,
\* changes no Book row and adds no Checkout row.
C10_NotFound ==
    [][\A b \in BookArgs, u \in UserArgs :
          ( /\ resp'.op = "checkout"
            /\ u \notin DOMAIN users \/ b \notin DOMAIN books
            /\ checkout_book(CheckoutKeys, b, u) )
          => ( /\ resp'.status = 404
               /\ books' = books
               /\ checkouts' = checkouts )]_vars

\* a checkout was answered 404 in a store that has users, a book out and a row
C10_Witness ==
    /\ resp.op = "checkout" /\ resp.status = 404
    /\ DOMAIN users # {}
    /\ \E b \in BookIds : books[b].is_booked = 1

\* the trending answer a response carries: the trending endpoint's, the homepage's
AnswersTrending == resp.op \in {"trending", "homepage"}
ListedBooks == {resp.trending[k].book_id : k \in DOMAIN resp.trending}

\* C11: trending ranks every book of the catalog, a book without a checkout
\* inside the trailing 7 days with count 0: whenever the catalog has at most 5
\* books, a trending answer lists every one of them.
C11_EveryBookRanked ==
    (AnswersTrending /\ Cardinality(DOMAIN catalog) <= TrendingLimit)
        => ListedBooks = DOMAIN catalog

\* the Checkout rows of book b whose checkout timestamp lies within the
\* trailing 7 days of the instant of the call
InWindowCount(b) ==
    Cardinality({i \in DOMAIN checkouts : /\ checkouts[i].book_id = b
                                          /\ checkouts[i].checkout_date >= now - TrendingWindow})

\* C12: a trending answer has at most 5 entries, every entry's count is the
\* number of its book's Checkout rows checked out within the trailing 7 days,
\* the counts do not increase along the answer, and no book left out has a
\* strictly greater count than a book of the answer.
C12_TrendingRanks ==
    AnswersTrending =>
        LET t == resp.trending
        IN  /\ Len(t) <= TrendingLimit
            /\ \A k \in DOMAIN t : t[k].checkout_count = InWindowCount(t[k].book_id)
            /\ \A k \in 1..(Len(t) - 1) : t[k].checkout_count >= t[k + 1].checkout_count
            /\ \A b \in DOMAIN catalog \ ListedBooks, k \in DOMAIN t :
                   InWindowCount(b) <= InWindowCount(t[k].book_id)

AnswersRecommendations ==
    \/ resp.op = "recommendations"
    \/ resp.op = "homepage" /\ resp.user_id # NULL

\* the Checkout rows of user u
RowsOfUser(u) == {i \in DOMAIN checkouts : checkouts[i].user_id = u}

\* C14: recommendation empty case: for a user without any Checkout row, also
\* for a user id that does not exist, the answer is no error, carries all four
\* result fields (by_author, by_year, similar_users, based_on_books), each
\* empty, and an explanatory message.
C14_EmptyCase ==
    (AnswersRecommendations /\ RowsOfUser(resp.user_id) = {})
        => LET r == resp.recommendations
           IN  /\ resp.status = 200
               /\ "message" \in DOMAIN r
               /\ {"by_author", "by_year", "similar_users", "based_on_books"} \subseteq DOMAIN r
               /\ r.by_author = <<>>
               /\ r.by_year = <<>>
               /\ r.similar_users = <<>>
               /\ r.based_on_books = <<>>

\* the user whose recommendations the response carries has checkouts
AnswersSeeded == AnswersRecommendations /\ RowsOfUser(resp.user_id) # {}

\* C15: seed selection: for a user with k >= 1 Checkout rows the seeds are the
\* min(3, k) rows of the user with the greatest checkout timestamps, in
\* descending order of timestamp, and based_on_books is the sequence of the
\* book ids of these rows, returned and not-returned rows alike.
C15_SeedSelection ==
    AnswersSeeded =>
        LET rows  == RowsOfUser(resp.user_id)
            based == resp.recommendations.based_on_books
        IN  /\ "based_on_books" \in DOMAIN resp.recommendations
            /\ Len(based) = (IF Cardinality(rows) < 3 THEN Cardinality(rows) ELSE 3)
            /\ \E seed \in [DOMAIN based -> rows] :
                  /\ \A j, k \in DOMAIN based : j # k => seed[j] # seed[k]
                  /\ \A j \in DOMAIN based : based[j] = checkouts[seed[j]].book_id
                  /\ \A j \in 1..(Len(based) - 1) :
                        checkouts[seed[j]].checkout_date >= checkouts[seed[j + 1]].checkout_date
                  /\ \A i \in rows : \A j \in DOMAIN based :
                        (\A k \in DOMAIN based : seed[k] # i)
                            => checkouts[i].checkout_date <= checkouts[seed[j]].checkout_date

\* recommendations for a user with more than 3 checkouts, one of the 3 most
\* recent not returned
C15_Witness ==
    /\ AnswersSeeded
    /\ Cardinality(RowsOfUser(resp.user_id)) > 3
    /\ Len(resp.recommendations.based_on_books) = 3
    /\ \E i \in RowsOfUser(resp.user_id) :
          /\ checkouts[i].is_returned = 0
          /\ Cardinality({j \in RowsOfUser(resp.user_id) :
                              checkouts[j].checkout_date > checkouts[i].checkout_date}) < 3

\* the seed books of the answer
SeedBooks == SeqRange(resp.recommendations.based_on_books)

\* What by_author and by_year have in common, for the list `list` keyed on the
\* column `column` with the seeds' keys `keys`: only books with a seed's key,
\* no seed book, no book twice, at most 10 entries, at most 5 books per key,
\* the books of one key together and in the order the store delivers them.
KeyedList(list, column, keys) ==
    /\ \A k \in DOMAIN list :
          /\ list[k] \in DOMAIN catalog
          /\ catalog[list[k]][column] \in keys
          /\ list[k] \notin SeedBooks
    /\ \A j, k \in DOMAIN list : j # k => list[j] # list[k]
    /\ Len(list) <= 10
    /\ \A key \in keys :
          Cardinality({k \in DOMAIN list : catalog[list[k]][column] = key}) <= 5
    /\ \A j, k \in DOMAIN list :
          (j < k /\ catalog[list[j]][column] = catalog[list[k]][column])
              => /\ ScanBefore(list[j], list[k])
                 /\ \A i \in j..k : catalog[list[i]][column] = catalog[list[j]][column]

\* the books other than the seeds that have the key `key`
OtherBooks(column, key) ==
    {b \in DOMAIN catalog : catalog[b][column] = key /\ b \notin SeedBooks}

SeedAuthors == {catalog[b].author : b \in SeedBooks}

\* C16 as stated: by_author holds only books by the author of a seed book, no
\* seed book, no book twice, at most 10 entries, at most 5 per seed author,
\* in first-seen order; and of every seed author who has other books in the
\* catalog at least one is listed.
C16_ByAuthor_Stated ==
    AnswersSeeded =>
        LET list == resp.recommendations.by_author
        IN  /\ KeyedList(list, "author", SeedAuthors)
            /\ \A a \in SeedAuthors :
                  OtherBooks("author", a) # {}
                      => \E k \in DOMAIN list : catalog[list[k]].author = a

\* C16: by_author holds only books by the author of a seed book, no seed book,
\* no book twice, at most 10 entries, at most 5 per seed author, in first-seen
\* order; and of every seed author who has other books in the catalog at least
\* one is listed unless the list is full, that is, holds 10 books.
C16_ByAuthor ==
    AnswersSeeded =>
        LET list == resp.recommendations.by_author
        IN  /\ KeyedList(list, "author", SeedAuthors)
            /\ \A a \in SeedAuthors :
                  OtherBooks("author", a) # {}
                      => \/ \E k \in DOMAIN list : catalog[list[k]].author = a
                         \/ Len(list) = 10

\* recommendations from three seed authors who all have other books: by_author
\* is full with the books of two of them
C16_Witness ==
    /\ AnswersSeeded
    /\ Cardinality(SeedAuthors) = 3
    /\ \A a \in SeedAuthors : OtherBooks("author", a) # {}
    /\ Len(resp.recommendations.by_author) = 10
    /\ \E a \in SeedAuthors :
          \A k \in DOMAIN resp.recommendations.by_author :
              catalog[resp.recommendations.by_author[k]].author # a

\* the publication years of the seed books that have one
SeedYears == {catalog[b].year_published : b \in SeedBooks} \ {NULL}

\* C17: by_year is built like by_author, keyed on the publication year: only
\* books published in the year of a seed book, no seed book, no book twice, at
\* most 5 books per seed year and at most 10 entries; a seed book without a
\* publication year contributes no year, so no book without one is listed.
C17_ByYear ==
    AnswersSeeded =>
        LET list == resp.recommendations.by_year
        IN  /\ KeyedList(list, "year_published", SeedYears)
            /\ \A k \in DOMAIN list : catalog[list[k]].year_published # NULL

\* recommendations from seeds of which one has no publication year, while
\* other books without one are in the catalog, and by_year is full
C17_Witness ==
    /\ AnswersSeeded
    /\ \E b \in SeedBooks : catalog[b].year_published = NULL
    /\ OtherBooks("year_published", NULL) # {}
    /\ Cardinality(SeedYears) >= 2
    /\ Len(resp.recommendations.by_year) = 10

\* the Checkout rows in which a user other than the requesting one checked out
\* a seed book, and these users
SeedHits(u) ==
    {i \in DOMAIN checkouts : /\ checkouts[i].user_id = u
                              /\ u # resp.user_id
                              /\ checkouts[i].book_id \in SeedBooks}
SimilarUserIds == {checkouts[i].user_id : i \in DOMAIN checkouts} \ {u \in DOMAIN users : SeedHits(u) = {}}

\* the first 5 of them in the order the store finds them: by the first row of
\* each in which a seed book is checked out
FirstHit(u) == CHOOSE i \in SeedHits(u) : \A j \in SeedHits(u) : ScanBefore(i, j)
FirstSimilar ==
    LET first == [u \in SimilarUserIds |-> FirstHit(u)]
    IN  {u \in DOMAIN first :
            Cardinality({v \in DOMAIN first : v # u /\ ScanBefore(first[v], first[u])}) < 5}

\* the books other than the seeds that user u has checked out
Borrowed(u) ==
    {checkouts[i].book_id : i \in RowsOfUser(u)} \ SeedBooks

\* C18: by_similar_user: every listed book has been checked out by one of the
\* first 5 users, other than the requesting user, who checked out a seed book;
\* the list has no seed book, no book twice and at most 10 entries, and its
\* books can be attributed to these users with at most 3 books for each
\* (every set X of listed books has at most 3 books per user who checked out
\* one of X).
C18_BySimilarUser ==
    AnswersSeeded =>
        \A from \in {[u \in FirstSimilar |-> Borrowed(u)]} :
            LET list == resp.recommendations.similar_users
            IN  /\ \A k \in DOMAIN list :
                      /\ list[k] \notin SeedBooks
                      /\ \E u \in DOMAIN from : list[k] \in from[u]
                /\ \A j, k \in DOMAIN list : j # k => list[j] # list[k]
                /\ Len(list) <= 10
                /\ \A X \in SUBSET SeqRange(list) :
                      Cardinality(X) <= 3 * Cardinality({u \in DOMAIN from : from[u] \cap X # {}})

\* recommendations where more than 5 other users checked out a seed book, one
\* of the first 5 has more than 3 other books, two of them share a book, and
\* the list is full
C18_Witness ==
    /\ AnswersSeeded
    /\ Cardinality(SimilarUserIds) > 5
    /\ \E u \in FirstSimilar : Cardinality(Borrowed(u)) > 3
    /\ \E u, v \in FirstSimilar : u # v /\ Borrowed(u) \cap Borrowed(v) # {}
    /\ Len(resp.recommendations.similar_users) = 10

\* C19: the ledger is append-only: no step deletes a Checkout row or changes
\* the book, user, checkout timestamp or due timestamp of an existing row; the
\* only change made to a row is the transition from not-returned to returned
\* with its return timestamp.
C19_AppendOnly ==
    [][ /\ Len(checkouts') >= Len(checkouts)
        /\ \A i \in DOMAIN checkouts :
              \/ checkouts'[i] = checkouts[i]
              \/ /\ checkouts[i].is_returned = 0
                 /\ checkouts'[i] = [checkouts[i] EXCEPT !.is_returned = 1,
                                                         !.return_date = checkouts'[i].return_date]
                 /\ checkouts'[i].return_date # NULL ]_vars

\* C20: only the checkout and return operations write a book's availability
\* fields (is_booked, booked_by_user_id, due_date) and a Checkout's completion
\* fields (is_returned, return_date): a step of any other operation, the book
\* PATCH and the user operations included, leaves all of them unchanged.
C20_OnlyWriter ==
    [][ resp'.op \notin {"checkout", "return"}
        => /\ books' = books
           /\ \A i \in DOMAIN checkouts :
                 /\ i \in DOMAIN checkouts'
                 /\ checkouts'[i].is_returned = checkouts[i].is_returned
                 /\ checkouts'[i].return_date = checkouts[i].return_date ]_vars

\* C21: in every state the service's operations reach, every Checkout row has
\* a return timestamp if and only if its is_returned flag is set.
C21_ReturnDateIffReturned ==
    \A i \in DOMAIN checkouts :
        (checkouts[i].return_date # NULL) <=> (checkouts[i].is_returned = 1)

\* a ledger with a returned row and a row that is not returned
C21_Witness ==
    /\ \E i \in DOMAIN checkouts : checkouts[i].is_returned = 1
    /\ \E i \in DOMAIN checkouts : checkouts[i].is_returned = 0

\* C22: for every Checkout row the checkout operation creates, the due
\* timestamp equals the row's checkout timestamp, which the store assigns on
\* insert, plus exactly the 7-day loan period.
C22_DueIsCheckoutPlusLoan ==
    \A i \in DOMAIN checkouts :
        checkouts[i].due_date = checkouts[i].checkout_date + LoanPeriod

\* C23: every request closes the connection it opened on every exit path:
\* once a checkout or return request has ended, by success, by a business
\* error or by an exception a statement raised, its connection is closed.
C23_ConnectionClosed ==
    \A p \in Conns : conn[p].pc = "idle" => ~conn[p].open

\* C24: book state and ledger agree: after any sequence of checkout and return
\* requests served one at a time on a store that starts with all books
\* available and no not-returned row, a book has is_booked = 1 if and only if
\* exactly one not-returned Checkout row references it, and then that row's
\* user is the book's booked_by_user_id and its due date the book's due_date.
C24_BookAgreesWithLedger ==
    \A b \in BookIds :
        /\ (books[b].is_booked = 1) <=> (Cardinality(OpenRows(b)) = 1)
        /\ books[b].is_booked = 1
              => \A i \in OpenRows(b) :
                    /\ checkouts[i].user_id = books[b].booked_by_user_id
                    /\ checkouts[i].due_date = books[b].due_date

\* a book checked out again after it was returned, another book available
C24_Witness ==
    \E b \in BookIds :
        /\ books[b].is_booked = 1
        /\ \E i \in DOMAIN checkouts :
              checkouts[i].book_id = b /\ checkouts[i].is_returned = 1
        /\ \E c \in BookIds : books[c].is_booked = 0

\* C25: with requests interleaved statement by statement, each on its own
\* connection, a return never resets a book to available while a different
\* Checkout row that is not returned references that book: a return that read
\* its checkout as not returned, and commits after another return of the same
\* checkout and a new checkout of the book have committed, leaves the book
\* booked.  (Before the commit no book has two rows that are not returned.)
C25_ReturnKeepsHolder ==
    [][ \A p \in Conns :
          ( /\ conn[p].pc = "rt_commit"
            /\ conn'[p].pc = "idle"
            /\ conn'[p].resp.status = 200
            /\ checkouts[conn[p].checkout_id].is_returned = 1
            /\ books[conn[p].book_id].is_booked = 1
            /\ \A b \in BookIds : Cardinality(OpenRows(b)) <= 1 )
          => \A i \in DOMAIN checkouts' :
                ( /\ i # conn[p].checkout_id
                  /\ checkouts'[i].book_id = conn[p].book_id
                  /\ checkouts'[i].is_returned = 0 )
                => books'[conn[p].book_id].is_booked = 1 ]_vars

\* C26: referential integrity survives user deletion: after any sequence of
\* register, checkout, return and delete-user requests, every non-null
\* booked_by_user_id of a book and every user_id of a Checkout row that is not
\* returned identifies a user that exists.
C26_HolderExists ==
    /\ \A b \in BookIds :
          books[b].booked_by_user_id # NULL => books[b].booked_by_user_id \in DOMAIN users
    /\ \A i \in DOMAIN checkouts :
          checkouts[i].is_returned = 0 => checkouts[i].user_id \in DOMAIN users
====
